---- MODULE Spec2Model ----
(***************************************************************************)
(* Model of scripts/generate_thm_card.py: fetch a profile page, extract    *)
(* statistics with regular expressions, synthesize a trend, map it to      *)
(* sparkline coordinates and render an SVG card from a template.           *)
(***************************************************************************)
EXTENDS Integers, Sequences, FiniteSets, TLC

(***************************************************************************)
(* Python float arithmetic (IEEE-754 binary64, round-half-to-even).        *)
(* A non-negative float is [l, e]: l holds the 53-bit significand as four  *)
(* 14-bit limbs, least significant first, and the value is l * 2^e; the    *)
(* significand of a non-zero float has exactly 53 bits.  Only the          *)
(* operations the script performs are defined: int / int, float * int,     *)
(* 1 - float, int(float) and round(float).                                 *)
(***************************************************************************)
MantBits == 53

LimbBits == 14

Base == 2^LimbBits

Max2(a, b) == IF a >= b THEN a ELSE b

Min2(a, b) == IF a <= b THEN a ELSE b

Zero == [l |-> <<0, 0, 0, 0>>, e |-> 0]

IsZero(x) == x.l = <<0, 0, 0, 0>>

\* limb i (from 0) of the limb string N, zero outside it
Limb(N, i) == IF i < 0 \/ i >= Len(N) THEN 0 ELSE N[i + 1]

\* the w <= LimbBits bits of N from bit lo upwards
Window(N, lo, w) ==
    LET i == lo \div LimbBits
        r == lo % LimbBits
    IN  ((Limb(N, i) \div 2^r) + Limb(N, i + 1) * 2^(LimbBits - r)) % 2^w

\* some bit of N below bit k is set
LowNonZero(N, k) ==
    /\ k > 0
    /\ \/ \E i \in 0..((k \div LimbBits) - 1) : Limb(N, i) # 0
       \/ Limb(N, k \div LimbBits) % 2^(k % LimbBits) # 0

RECURSIVE BitLen(_)
BitLen(v) == IF v = 0 THEN 0 ELSE 1 + BitLen(v \div 2)

BitLength(N) ==
    IF \A i \in 1..Len(N) : N[i] = 0 THEN 0
    ELSE LET top == CHOOSE i \in 1..Len(N) : N[i] # 0 /\ \A j \in (i + 1)..Len(N) : N[j] = 0
         IN  LimbBits * (top - 1) + BitLen(N[top])

\* significand + 1; <<>> when the sum needs 54 bits
IncLimbs(M) ==
    IF M[1] < Base - 1 THEN <<M[1] + 1, M[2], M[3], M[4]>>
    ELSE IF M[2] < Base - 1 THEN <<0, M[2] + 1, M[3], M[4]>>
    ELSE IF M[3] < Base - 1 THEN <<0, 0, M[3] + 1, M[4]>>
    ELSE IF M[4] < 2^(MantBits - 3 * LimbBits) - 1 THEN <<0, 0, 0, M[4] + 1>>
    ELSE <<>>

\* round the exact value N * 2^e (plus a non-zero tail below the last bit of
\* N when sticky) to the nearest float, ties to even
RoundFloat(N, e, sticky) ==
    LET n == BitLength(N)
        s == n - MantBits
        M == <<Window(N, s, LimbBits), Window(N, s + LimbBits, LimbBits),
               Window(N, s + 2 * LimbBits, LimbBits), Window(N, s + 3 * LimbBits, LimbBits)>>
        guard == IF s >= 1 THEN Window(N, s - 1, 1) ELSE 0
        rest  == sticky \/ LowNonZero(N, s - 1)
        up    == guard = 1 /\ (rest \/ M[1] % 2 = 1)
        inc   == IncLimbs(M)
    IN  IF n = 0 THEN Zero
        ELSE IF ~up THEN [l |-> M, e |-> e + s]
        ELSE IF inc = <<>> THEN [l |-> <<0, 0, 0, 2^(MantBits - 3 * LimbBits - 1)>>, e |-> e + s + 1]
        ELSE [l |-> inc, e |-> e + s]

FracLimbs == 6

\* remainder of the long division of r0 / b after k limbs of the quotient
RECURSIVE DivRem(_, _, _)
DivRem(r0, b, k) == IF k = 0 THEN r0 ELSE (DivRem(r0, b, k - 1) * Base) % b

\* a / b for integers a >= 0 and 0 < b < 2^17 (Python true division,
\* correctly rounded): long division in base 2^14, then rounded
FDiv(a, b) ==
    LET ip == a \div b
        r0 == a % b
        q(k) == (DivRem(r0, b, k - 1) * Base) \div b
    IN  RoundFloat(<<q(6), q(5), q(4), q(3), q(2), q(1), ip % Base, ip \div Base>>,
                   0 - FracLimbs * LimbBits, DivRem(r0, b, FracLimbs) # 0)

\* carry out of limb j of l * k
RECURSIVE MulCarry(_, _, _)
MulCarry(l, k, j) == IF j = 0 THEN 0 ELSE (l[j] * k + MulCarry(l, k, j - 1)) \div Base

\* x * k for a float x and an integer 0 <= k < 2^16
FMulInt(x, k) ==
    LET p(j) == (x.l[j] * k + MulCarry(x.l, k, j - 1)) % Base
    IN  RoundFloat(<<p(1), p(2), p(3), p(4), MulCarry(x.l, k, 4)>>, x.e, FALSE)

\* 1 - x for a float 0 <= x <= 1: with n = -x.e, 1 - x = (2^n - l) * 2^(x.e)
FOneMinus(x) ==
    IF IsZero(x) THEN [l |-> <<0, 0, 0, 2^(MantBits - 3 * LimbBits - 1)>>, e |-> 1 - MantBits]
    ELSE LET n    == 0 - x.e
             top  == n \div LimbBits
             one(i) == IF i = top THEN 2^(n % LimbBits) ELSE 0
             RECURSIVE borrow(_)
             borrow(i) == IF i < 0 THEN 0
                          ELSE IF one(i) - Limb(x.l, i) - borrow(i - 1) < 0 THEN 1 ELSE 0
             d(i) == (one(i) - Limb(x.l, i) - borrow(i - 1)) % Base
         IN  RoundFloat([i \in 1..(top + 1) |-> d(i - 1)], x.e, FALSE)

\* int(x): truncation toward zero (x < 2^28)
FTrunc(x) ==
    IF x.e >= 0 THEN Window(x.l, 0, LimbBits) * 2^(x.e)
    ELSE Window(x.l, 0 - x.e, LimbBits) + Base * Window(x.l, LimbBits - x.e, LimbBits)

\* round(x): nearest integer, ties to the even integer
FRound(x) ==
    LET n    == FTrunc(x)
        half == IF x.e < 0 THEN Window(x.l, 0 - x.e - 1, 1) ELSE 0
        rest == LowNonZero(x.l, 0 - x.e - 1)
    IN  IF half = 1 /\ (rest \/ n % 2 = 1) THEN n + 1 ELSE n

(***************************************************************************)
(* Text.  A string is a sequence of tokens; a token is one character, or a *)
(* run of characters that the patterns of extract_stats treat as a unit:   *)
(* the literal words the patterns look for, and Gap, a run of letters      *)
(* longer than every bounded window of the patterns.                       *)
(***************************************************************************)
Gap == "xxxxxxxxxxxxxxxxxxxxxxxxxxxxxxxxxxxxxxxxxxxxxxxxxxx"

Digits == {"4", "2"}

Keywords == {"Rank", "Badges", "badge", "Completed", "rooms", "Streak"}

Tokens == Keywords \cup Digits \cup {"/p/", ",", ":", " ", "a", Gap}

\* number of characters of a token
Width(t) ==
    CASE t = "Rank" -> 4
      [] t = "Badges" -> 6
      [] t = "badge" -> 5
      [] t = "Completed" -> 9
      [] t = "rooms" -> 5
      [] t = "Streak" -> 6
      [] t = "/p/" -> 3
      [] t = Gap -> 51
      [] OTHER -> 1

DigitVal(t) == IF t = "4" THEN 4 ELSE 2

\* character classes of the patterns: \d, [0-9,], \s, \W, [:\-\n\r ], [A-Za-z0-9\-_]
IsDigit(t) == t \in Digits

NumChars == Digits \cup {","}

IsSpace(t) == t = " "

IsNonWord(t) == t \in {",", ":", " "}

IsSep(t) == t \in {":", " "}

IsIdent(t) == t \in Keywords \cup Digits \cup {"a", Gap}

\* Python's None where a string is expected
None == <<"<None>">>

SetMax(S) == CHOOSE x \in S : \A y \in S : y <= x

SetMin(S) == CHOOSE x \in S : \A y \in S : x <= y

RECURSIVE WidthSum(_, _, _)
WidthSum(s, i, j) == IF i > j THEN 0 ELSE Width(s[i]) + WidthSum(s, i + 1, j)

RECURSIVE DigitsToInt(_, _)
DigitsToInt(s, acc) == IF s = <<>> THEN acc ELSE DigitsToInt(Tail(s), 10 * acc + DigitVal(s[1]))

safe_int(s) ==
    IF s = None THEN 0
    ELSE LET s_clean == SelectSeq(s, IsDigit)
         IN  IF s_clean # <<>> THEN DigitsToInt(s_clean, 0) ELSE 0

\* the longest run of at most maxn tokens of S that starts at s[g]
Run(s, g, S, maxn) ==
    LET ends == {j \in g..Min2(Len(s), g + maxn - 1) : \A i \in g..j : s[i] \in S}
    IN  SubSeq(s, g, SetMax(ends))

\* [^0-9]{0,limit}(S...) after the token s[p]: where the group starts, 0 when
\* it cannot.  The window is greedy and backs off to the last place, within
\* limit characters and before any digit, at which a token of S follows.
GroupStart(s, p, limit, S) ==
    LET ks == {k \in 0..(Len(s) - p - 1) :
                  /\ \A j \in 1..k : ~IsDigit(s[p + j])
                  /\ WidthSum(s, p + 1, p + k) <= limit
                  /\ s[p + k + 1] \in S}
    IN  IF ks = {} THEN 0 ELSE p + SetMax(ks) + 1

\* re.search(word + r'[^0-9]{0,limit}(S{1,maxn})', s, re.I): group(1) or None
SearchWindow(s, word, limit, S, maxn) ==
    LET starts == {p \in 1..Len(s) : s[p] = word /\ GroupStart(s, p, limit, S) # 0}
    IN  IF starts = {} THEN None
        ELSE Run(s, GroupStart(s, SetMin(starts), limit, S), S, maxn)

\* re.search(r'Badges[^0-9]{0,40}([0-9]{1,4})', s, re.I).  Ignoring case, the
\* word is the token "Badges", or "badge" and the S of a following "Streak",
\* whose other five letters then fall in the window.
SearchBadges(s) ==
    LET joined(p) == s[p] = "badge" /\ p < Len(s) /\ s[p + 1] = "Streak"
        anchor(p) == IF joined(p) THEN p + 1 ELSE p
        limit(p)  == IF joined(p) THEN 40 - (Width("Streak") - 1) ELSE 40
        starts == {p \in 1..Len(s) :
                      /\ s[p] = "Badges" \/ joined(p)
                      /\ GroupStart(s, anchor(p), limit(p), Digits) # 0}
    IN  IF starts = {} THEN None
        ELSE LET p == SetMin(starts)
             IN  Run(s, GroupStart(s, anchor(p), limit(p), Digits), Digits, 4)

\* mutant of SearchRankLoose: the pattern without its "Rank" label
SearchRankLoose_Unanchored(s) ==
    LET digits == {j \in 1..Len(s) : IsDigit(s[j])}
    IN  IF digits = {} THEN None ELSE Run(s, SetMin(digits), Digits, 7)

\* re.search(r'Rank.*?(\d{1,7})', s, re.I | re.S)
SearchRankLoose(s) ==
    LET starts == {p \in 1..Len(s) : s[p] = "Rank" /\ \E j \in (p + 1)..Len(s) : IsDigit(s[j])}
    IN  IF starts = {} THEN None
        ELSE LET p == SetMin(starts)
                 g == SetMin({j \in (p + 1)..Len(s) : IsDigit(s[j])})
             IN  Run(s, g, Digits, 7)

\* re.search(r'badge[s]?\W*[:\-\n\r ]+\s*([0-9]{1,4})', s, re.I): the tokens
\* between the word and the number are all \W, and the last is a separator
SearchBadgeLoose(s) ==
    LET ok(p, g) == /\ g > p + 1
                    /\ \A j \in (p + 1)..(g - 1) : IsNonWord(s[j])
                    /\ IsSep(s[g - 1])
                    /\ IsDigit(s[g])
        starts == {p \in 1..Len(s) : s[p] \in {"badge", "Badges"} /\ \E g \in (p + 2)..Len(s) : ok(p, g)}
    IN  IF starts = {} THEN None
        ELSE LET p == SetMin(starts)
                 g == CHOOSE g \in (p + 2)..Len(s) : ok(p, g)
             IN  Run(s, g, Digits, 4)

\* re.search(r'Completed\s*rooms[^0-9]{0,50}([0-9,]{1,6})', s, re.I)
SearchCompletedRooms(s) ==
    LET rooms(p) == CHOOSE q \in (p + 1)..Len(s) :
                        s[q] = "rooms" /\ \A j \in (p + 1)..(q - 1) : IsSpace(s[j])
        has(p) == \E q \in (p + 1)..Len(s) :
                        s[q] = "rooms" /\ \A j \in (p + 1)..(q - 1) : IsSpace(s[j])
        starts == {p \in 1..Len(s) :
                        s[p] = "Completed" /\ has(p) /\ GroupStart(s, rooms(p), 50, NumChars) # 0}
    IN  IF starts = {} THEN None
        ELSE Run(s, GroupStart(s, rooms(SetMin(starts)), 50, NumChars), NumChars, 6)

\* re.search(r'Completed\s*:\s*([0-9,]{1,6})', s, re.I)
SearchCompletedColon(s) ==
    LET ok(p, g) == /\ \E c \in (p + 1)..(g - 1) :
                          /\ s[c] = ":"
                          /\ \A j \in ((p + 1)..(g - 1)) \ {c} : IsSpace(s[j])
                    /\ s[g] \in NumChars
        starts == {p \in 1..Len(s) : s[p] = "Completed" /\ \E g \in (p + 2)..Len(s) : ok(p, g)}
    IN  IF starts = {} THEN None
        ELSE LET p == SetMin(starts)
                 g == SetMin({g \in (p + 2)..Len(s) : ok(p, g)})
             IN  Run(s, g, NumChars, 6)

\* re.search(r'/p/([A-Za-z0-9\-_]+)', s)
SearchUrl(s) ==
    LET starts == {p \in 1..(Len(s) - 1) : s[p] = "/p/" /\ IsIdent(s[p + 1])}
    IN  IF starts = {} THEN None
        ELSE LET p == SetMin(starts)
                 j == SetMax({j \in (p + 1)..Len(s) : \A i \in (p + 1)..j : IsIdent(s[i])})
             IN  SubSeq(s, p + 1, j)

\* `m and m.group(1)`
Matched(m) == m # None /\ m # <<>>

DefaultStats(username) ==
    [username |-> username, rank |-> 0, badges |-> 0, rooms |-> 0, streak |-> 0]

\* mutant of extract_stats: the /p/<identifier> of the document is preferred
\* to the input username
extract_stats_UrlFirst(html, username) ==
    LET rank1   == SearchWindow(html, "Rank", 40, NumChars, 9)
        rank2   == SearchRankLoose(html)
        badges1 == SearchBadges(html)
        badges2 == SearchBadgeLoose(html)
        rooms1  == SearchCompletedRooms(html)
        rooms2  == SearchWindow(html, "Completed", 40, NumChars, 6)
        rooms3  == SearchCompletedColon(html)
        streak1 == SearchWindow(html, "Streak", 30, Digits, 4)
        url     == SearchUrl(html)
    IN  IF html = <<>> THEN DefaultStats(username)
        ELSE [username |-> IF Matched(url) THEN url ELSE username,
              rank     |-> IF Matched(rank1) THEN safe_int(rank1)
                           ELSE IF Matched(rank2) THEN safe_int(rank2) ELSE 0,
              badges   |-> IF Matched(badges1) THEN safe_int(badges1)
                           ELSE IF Matched(badges2) THEN safe_int(badges2) ELSE 0,
              rooms    |-> IF Matched(rooms1) THEN safe_int(rooms1)
                           ELSE IF Matched(rooms2) THEN safe_int(rooms2)
                           ELSE IF Matched(rooms3) THEN safe_int(rooms3) ELSE 0,
              streak   |-> IF Matched(streak1) THEN safe_int(streak1) ELSE 0]

extract_stats(html, username) ==
    LET rank1   == SearchWindow(html, "Rank", 40, NumChars, 9)
        rank2   == SearchRankLoose(html)
        badges1 == SearchBadges(html)
        badges2 == SearchBadgeLoose(html)
        rooms1  == SearchCompletedRooms(html)
        rooms2  == SearchWindow(html, "Completed", 40, NumChars, 6)
        rooms3  == SearchCompletedColon(html)
        streak1 == SearchWindow(html, "Streak", 30, Digits, 4)
        url     == SearchUrl(html)
    IN  IF html = <<>> THEN DefaultStats(username)
        ELSE [username |-> IF username = <<>> /\ Matched(url) THEN url ELSE username,
              rank     |-> IF Matched(rank1) THEN safe_int(rank1)
                           ELSE IF Matched(rank2) THEN safe_int(rank2) ELSE 0,
              badges   |-> IF Matched(badges1) THEN safe_int(badges1)
                           ELSE IF Matched(badges2) THEN safe_int(badges2) ELSE 0,
              rooms    |-> IF Matched(rooms1) THEN safe_int(rooms1)
                           ELSE IF Matched(rooms2) THEN safe_int(rooms2)
                           ELSE IF Matched(rooms3) THEN safe_int(rooms3) ELSE 0,
              streak   |-> IF Matched(streak1) THEN safe_int(streak1) ELSE 0]

(***************************************************************************)
(* Trend, sparkline geometry, progress and display strings.                *)
(***************************************************************************)
\* the loop of lines 118-120: raise every value below its predecessor
RECURSIVE Monotone(_, _)
Monotone(values, i) ==
    IF i > Len(values) THEN values
    ELSE IF values[i] < values[i - 1]
         THEN Monotone([values EXCEPT ![i] = values[i - 1]], i + 1)
         ELSE Monotone(values, i + 1)

\* mutant of Rescale: scale = total_rooms // last, an integer division
Rescale_IntDiv(values, total_rooms) ==
    LET scale == total_rooms \div values[Len(values)]
    IN  [i \in 1..Len(values) |-> Max2(0, values[i] * scale)]

\* values = [max(0, int(round(v * scale))) for v in values], scale = total / last
Rescale(values, total_rooms) ==
    LET scale == FDiv(total_rooms, values[Len(values)])
    IN  [i \in 1..Len(values) |-> Max2(0, FRound(FMulInt(scale, values[i])))]

synthesize_trend(total_rooms, points0) ==
    LET points == Max2(2, points0)
        base   == Max2(0, total_rooms - (points - 1))
        values == [i \in 1..points |-> base + (i - 1)]
        last   == values[points]
    IN  IF total_rooms <= 0 THEN [i \in 1..points |-> 0]
        ELSE Monotone(IF last # total_rooms /\ last # 0
                      THEN Rescale(values, total_rooms) ELSE values, 2)

SeqMax(values) == SetMax({values[i] : i \in 1..Len(values)})

\* mutant of build_sparkline_points: y = int(v * height), the plot upside down
build_sparkline_points_Flipped(values, width, height) ==
    IF values = <<>> THEN <<>>
    ELSE LET maxv == IF SeqMax(values) # 0 THEN SeqMax(values) ELSE 1
             n    == Len(values)
             x(i) == IF n > 1 THEN FTrunc(FMulInt(FDiv(i - 1, n - 1), width)) ELSE 0
             y(i) == FTrunc(FMulInt(FDiv(values[i], maxv), height))
         IN  [i \in 1..n |-> <<x(i), y(i)>>]

\* mutant of build_sparkline_points: round() in the place of int()
build_sparkline_points_Rounded(values, width, height) ==
    IF values = <<>> THEN <<>>
    ELSE LET maxv == IF SeqMax(values) # 0 THEN SeqMax(values) ELSE 1
             n    == Len(values)
             x(i) == IF n > 1 THEN FRound(FMulInt(FDiv(i - 1, n - 1), width)) ELSE 0
             y(i) == FRound(FMulInt(FOneMinus(FDiv(values[i], maxv)), height))
         IN  [i \in 1..n |-> <<x(i), y(i)>>]

\* one <<x, y>> per value; the script joins them as "x,y x,y ..."
build_sparkline_points(values, width, height) ==
    IF values = <<>> THEN <<>>
    ELSE LET maxv == IF SeqMax(values) # 0 THEN SeqMax(values) ELSE 1
             n    == Len(values)
             x(i) == IF n > 1 THEN FTrunc(FMulInt(FDiv(i - 1, n - 1), width)) ELSE 0
             y(i) == FTrunc(FMulInt(FOneMinus(FDiv(values[i], maxv)), height))
         IN  [i \in 1..n |-> <<x(i), y(i)>>]

progress_cap(rooms) == Max2(Max2(10, rooms), 100)

\* mutant of progress_pct: max() in the place of min()
progress_pct_Max(rooms) ==
    LET x == FMulInt(FDiv(rooms, progress_cap(rooms)), 100)
    IN  IF FTrunc(x) < 100 THEN 100 ELSE FTrunc(x)

\* int(min(100, (rooms / progress_cap) * 100))
progress_pct(rooms) ==
    LET x == FMulInt(FDiv(rooms, progress_cap(rooms)), 100)
    IN  IF FTrunc(x) < 100 THEN FTrunc(x) ELSE 100

DigitChar(d) == <<"0", "1", "2", "3", "4", "5", "6", "7", "8", "9">>[d + 1]

\* str(n)
RECURSIVE FormatInt(_)
FormatInt(n) == IF n < 10 THEN <<DigitChar(n)>> ELSE FormatInt(n \div 10) \o <<DigitChar(n % 10)>>

\* f"{n:,}"
RECURSIVE FormatGrouped(_)
FormatGrouped(n) ==
    IF n < 1000 THEN FormatInt(n)
    ELSE FormatGrouped(n \div 1000)
         \o <<",", DigitChar((n % 1000) \div 100), DigitChar((n % 100) \div 10), DigitChar(n % 10)>>

\* the placeholder shown for an unknown rank (an em dash, U+2014)
Dash == "--"

rank_display(rank) == IF rank # 0 THEN FormatGrouped(rank) ELSE <<Dash>>

(***************************************************************************)
(* The program: one invocation of main() after another, on a file system   *)
(* and a remote site that outlive the invocations.                         *)
(***************************************************************************)
VARIABLES
    argv,       \* the parsed command line: [ok, username, points, template, card]
    tplExists,  \* whether the template path exists
    remote,     \* the page the site serves for the profile
    outFile,    \* what the output path holds
    startFile,  \* what it held when this invocation started
    now,        \* wall clock, in ticks
    pc,         \* where main() is
    username,   \* main()'s locals
    html,
    stats,
    context,
    exitCode,   \* the process's exit status, Running until it ends
    log,        \* what the process printed (stdout and stderr), in order
    gets,       \* HTTP GETs issued by this invocation
    writes,     \* writes of the output file by this invocation
    run,        \* number of this invocation
    prev,       \* what the previous invocation fetched, wrote and returned
    call,       \* a pure function applied on its own: its arguments
    ret         \* and its result

mainVars == <<argv, tplExists, remote, outFile, startFile, now, pc, username, html, stats, context,
              exitCode, log, gets, writes, run, prev>>

vars == <<argv, tplExists, remote, outFile, startFile, now, pc, username, html, stats, context,
          exitCode, log, gets, writes, run, prev, call, ret>>

\* ---- bounds of the model
MaxDocLen == 3

MaxTarget == 30

MaxPoints == 24

MaxSeqLen == 3

MaxValue == 5

MaxRooms == 120

MaxClock == 2

MaxRuns == 2

\* ---- inputs
TicksPerMinute == 2

ContextKeys == {"username", "rank_display", "badges_display", "rooms_display",
                "streak_display", "total_rooms", "spark_points", "generated_at",
                "card_w", "card_h", "progress_pct"}

\* a template is known by the placeholders it uses
Templates == {ContextKeys, ContextKeys \ {"generated_at"}}

RawUsernames == {<<" ", "a", " ">>, <<" ">>}

PointArgs == {0, 12}

CardSizes == {<<780, 330>>}

PageStats == <<"Completed", " ", "rooms", ":", " ", "4", "2", " ", "Rank", " ", "4", ",", "2", "4", "2">>

PageUrl == <<"/p/", "a", "a", " ", "Streak", " ", "4">>

Pages == {<<>>, PageStats, PageUrl}

Absent == [kind |-> "absent"]

Stale == [kind |-> "text", text |-> "stale"]

Truncated == [kind |-> "text", text |-> "truncated"]

Running == -1

NoStats == [none |-> TRUE]

NoRun == [none |-> TRUE]

NoCall == [f |-> "none"]

\* ---- main()
\* str.strip()
RECURSIVE Strip(_)
Strip(s) ==
    IF s = <<>> THEN s
    ELSE IF IsSpace(s[1]) THEN Strip(Tail(s))
    ELSE IF IsSpace(s[Len(s)]) THEN Strip(SubSeq(s, 1, Len(s) - 1))
    ELSE s

\* datetime.now(timezone.utc).strftime("%Y-%m-%d %H:%M UTC"): the minute
generated_at(t) == t \div TicksPerMinute

\* tpl.render(**context): the text is fixed by the template and by the values
\* of the placeholders the template uses
render_svg(template, ctx) == [kind |-> "svg", text |-> [k \in template |-> ctx[k]]]

BuildContext(st, points, card, t) ==
    [username       |-> st.username,
     rank_display   |-> rank_display(st.rank),
     badges_display |-> FormatInt(st.badges),
     rooms_display  |-> FormatInt(st.rooms),
     streak_display |-> FormatInt(st.streak),
     total_rooms    |-> st.rooms,
     spark_points   |-> build_sparkline_points(synthesize_trend(st.rooms, points), 360, 44),
     generated_at   |-> generated_at(t),
     card_w         |-> card[1],
     card_h         |-> card[2],
     progress_pct   |-> progress_pct(st.rooms)]

Exit(code, msg) ==
    /\ exitCode' = code
    /\ log' = Append(log, msg)
    /\ pc' = "done"

ParseArgs ==
    /\ pc = "start"
    /\ IF ~argv.ok
       THEN /\ Exit(2, "usage")
            /\ UNCHANGED username
       ELSE /\ username' = Strip(argv.username)
            /\ pc' = "check"
            /\ UNCHANGED <<exitCode, log>>
    /\ UNCHANGED <<argv, tplExists, remote, outFile, startFile, now, html, stats, context, gets, writes,
                   run, prev, call, ret>>

\* mutant of CheckTemplate: the error is printed and main() goes on
CheckTemplate_NoExit ==
    /\ pc = "check"
    /\ pc' = "fetch"
    /\ log' = IF ~tplExists THEN Append(log, "Error: template not found")
              ELSE Append(log, "Fetching")
    /\ UNCHANGED <<argv, tplExists, remote, outFile, startFile, now, username, html, stats,
                   context, exitCode, gets, writes, run, prev, call, ret>>

CheckTemplate ==
    /\ pc = "check"
    /\ IF ~tplExists
       THEN Exit(1, "Error: template not found")
       ELSE /\ pc' = "fetch"
            /\ log' = Append(log, "Fetching")
            /\ UNCHANGED exitCode
    /\ UNCHANGED <<argv, tplExists, remote, outFile, startFile, now, username, html, stats, context, gets,
                   writes, run, prev, call, ret>>

\* mutant of Fetch: html is assigned before raise_for_status(), so the body of
\* a failed response is kept
Fetch_KeepsBody ==
    /\ pc = "fetch"
    /\ gets' = gets + 1
    /\ html' = remote
    /\ \/ UNCHANGED log
       \/ log' = Append(log, "Warning: failed to fetch profile page")
    /\ pc' = "extract"
    /\ UNCHANGED <<argv, tplExists, remote, outFile, startFile, now, username, stats, context,
                   exitCode, writes, run, prev, call, ret>>

\* mutant of Fetch: a failed GET is tried once more
Fetch_Retry ==
    /\ pc = "fetch"
    /\ \/ /\ html' = remote
          /\ gets' = gets + 1
          /\ UNCHANGED log
       \/ /\ html' = <<>>
          /\ gets' = gets + 2
          /\ log' = Append(log, "Warning: failed to fetch profile page")
    /\ pc' = "extract"
    /\ UNCHANGED <<argv, tplExists, remote, outFile, startFile, now, username, stats, context,
                   exitCode, writes, run, prev, call, ret>>

\* requests.get(...) and raise_for_status(): the page, or a RequestException
\* (connection error, timeout, non-success status)
Fetch ==
    /\ pc = "fetch"
    /\ gets' = gets + 1
    /\ \/ /\ html' = remote
          /\ UNCHANGED log
       \/ /\ html' = <<>>
          /\ log' = Append(log, "Warning: failed to fetch profile page")
    /\ pc' = "extract"
    /\ UNCHANGED <<argv, tplExists, remote, outFile, startFile, now, username, stats, context, exitCode,
                   writes, run, prev, call, ret>>

Extract ==
    /\ pc = "extract"
    /\ LET s == extract_stats(html, username)
       IN  stats' = IF s.username = <<>> THEN [s EXCEPT !.username = username] ELSE s
    /\ pc' = "context"
    /\ UNCHANGED <<argv, tplExists, remote, outFile, startFile, now, username, html, context, exitCode,
                   log, gets, writes, run, prev, call, ret>>

Decorate ==
    /\ pc = "context"
    /\ context' = BuildContext(stats, argv.points, argv.card, now)
    /\ pc' = "render"
    /\ UNCHANGED <<argv, tplExists, remote, outFile, startFile, now, username, html, stats, exitCode,
                   log, gets, writes, run, prev, call, ret>>

\* mutant of Render: the text is appended to the file, not written over it
Render_Append ==
    /\ pc = "render"
    /\ outFile' = IF outFile = Absent THEN render_svg(argv.template, context)
                   ELSE [kind |-> "appended", head |-> outFile,
                         tail |-> render_svg(argv.template, context)]
    /\ writes' = writes + 1
    /\ log' = Append(log, "Wrote")
    /\ exitCode' = 0
    /\ pc' = "done"
    /\ UNCHANGED <<argv, tplExists, remote, startFile, now, username, html, stats, context,
                   gets, run, prev, call, ret>>

\* render_svg inside try/except: it writes the file and returns, or raises
\* before the write (the template fails to load or to render, the output
\* cannot be opened), or raises in the write and leaves a truncated file
Render ==
    /\ pc = "render"
    /\ \/ /\ outFile' = render_svg(argv.template, context)
          /\ writes' = writes + 1
          /\ log' = Append(log, "Wrote")
          /\ exitCode' = 0
          /\ pc' = "done"
       \/ /\ Exit(1, "Error: failed to render SVG")
          /\ UNCHANGED <<outFile, writes>>
       \/ /\ Exit(1, "Error: failed to render SVG")
          /\ outFile' = Truncated
          /\ writes' = writes + 1
    /\ UNCHANGED <<argv, tplExists, remote, startFile, now, username, html, stats, context,
                   gets, run, prev, call, ret>>

\* time passes
Tick ==
    /\ now < MaxClock
    /\ now' = now + 1
    /\ UNCHANGED <<argv, tplExists, remote, outFile, startFile, pc, username, html, stats,
                   context, exitCode, log, gets, writes, run, prev, call, ret>>

\* the site serves another page
Publish ==
    /\ \E page \in Pages \ {remote} : remote' = page
    /\ UNCHANGED <<argv, tplExists, outFile, startFile, now, pc, username, html, stats, context,
                   exitCode, log, gets, writes, run, prev, call, ret>>

\* the same command line is run again (a scheduled job)
Rerun ==
    /\ pc = "done"
    /\ run < MaxRuns
    /\ run' = run + 1
    /\ prev' = [html |-> html, exitCode |-> exitCode, outFile |-> outFile, context |-> context]
    /\ pc' = "start"
    /\ username' = <<>>
    /\ html' = <<>>
    /\ stats' = NoStats
    /\ context' = NoStats
    /\ exitCode' = Running
    /\ log' = <<>>
    /\ gets' = 0
    /\ writes' = 0
    /\ startFile' = outFile
    /\ UNCHANGED <<argv, tplExists, remote, outFile, now, call, ret>>

Init ==
    /\ argv \in [ok : BOOLEAN, username : RawUsernames, points : PointArgs,
                 template : Templates, card : CardSizes]
    /\ tplExists \in BOOLEAN
    /\ remote \in Pages
    /\ outFile \in {Absent, Stale}
    /\ startFile = outFile
    /\ now = 0
    /\ pc = "start"
    /\ username = <<>>
    /\ html = <<>>
    /\ stats = NoStats
    /\ context = NoStats
    /\ exitCode = Running
    /\ log = <<>>
    /\ gets = 0
    /\ writes = 0
    /\ run = 1
    /\ prev = NoRun
    /\ call = NoCall
    /\ ret = NoCall

Next ==
    \/ ParseArgs
    \/ CheckTemplate
    \/ Fetch
    \/ Extract
    \/ Decorate
    \/ Render
    \/ Tick
    \/ Publish
    \/ Rerun

Spec == Init /\ [][Next]_vars

(***************************************************************************)
(* The pure functions on their own: the arguments are drawn from bounded   *)
(* sets and the function is applied to them.  main() is not running.       *)
(***************************************************************************)
Off ==
    /\ argv = [ok |-> FALSE, username |-> <<>>, points |-> 0, template |-> {}, card |-> <<0, 0>>]
    /\ tplExists = FALSE
    /\ remote = <<>>
    /\ outFile = Absent
    /\ startFile = Absent
    /\ now = 0
    /\ pc = "off"
    /\ username = <<>>
    /\ html = <<>>
    /\ stats = NoStats
    /\ context = NoStats
    /\ exitCode = Running
    /\ log = <<>>
    /\ gets = 0
    /\ writes = 0
    /\ run = 0
    /\ prev = NoRun

SeqsUpTo(n, S) == UNION {[1..k -> S] : k \in 0..n}

Usernames == {<<>>, <<"a">>}

Canvases == {<<360, 44>>, <<10, 10>>}

Returned == ret # NoCall

InitExtract ==
    /\ Off
    /\ call \in [f : {"extract_stats"}, html : SeqsUpTo(MaxDocLen, Tokens), username : Usernames]
    /\ ret = NoCall

ApplyExtract ==
    /\ call.f = "extract_stats"
    /\ ~Returned
    /\ ret' = [value |-> extract_stats(call.html, call.username)]
    /\ UNCHANGED <<mainVars, call>>

SpecExtract == InitExtract /\ [][ApplyExtract]_vars

InitTrend ==
    /\ Off
    /\ call \in [f : {"synthesize_trend"}, total_rooms : 0..MaxTarget, points : 0..MaxPoints]
    /\ ret = NoCall

ApplyTrend ==
    /\ call.f = "synthesize_trend"
    /\ ~Returned
    /\ ret' = [value |-> synthesize_trend(call.total_rooms, call.points)]
    /\ UNCHANGED <<mainVars, call>>

SpecTrend == InitTrend /\ [][ApplyTrend]_vars

InitSparkline ==
    /\ Off
    /\ call \in [f : {"build_sparkline_points"}, values : SeqsUpTo(MaxSeqLen, 0..MaxValue),
                 canvas : Canvases]
    /\ ret = NoCall

ApplySparkline ==
    /\ call.f = "build_sparkline_points"
    /\ ~Returned
    /\ ret' = [value |-> build_sparkline_points(call.values, call.canvas[1], call.canvas[2])]
    /\ UNCHANGED <<mainVars, call>>

SpecSparkline == InitSparkline /\ [][ApplySparkline]_vars

InitProgress ==
    /\ Off
    /\ call \in [f : {"progress_pct"}, rooms : 0..MaxRooms]
    /\ ret = NoCall

ApplyProgress ==
    /\ call.f = "progress_pct"
    /\ ~Returned
    /\ ret' = [value |-> progress_pct(call.rooms)]
    /\ UNCHANGED <<mainVars, call>>

SpecProgress == InitProgress /\ [][ApplyProgress]_vars

(***************************************************************************)
(* Claims.                                                                 *)
(***************************************************************************)
NonDecreasing(values) == \A i \in 1..(Len(values) - 1) : values[i] <= values[i + 1]

\* C1: for a target T >= 0 and a point count N >= 2, synthesize_trend returns
\* exactly N non-negative integers, non-decreasing, the last equal to T, and
\* all zero when T = 0.
C1_TrendContract ==
    (Returned /\ call.f = "synthesize_trend" /\ call.points >= 2) =>
        /\ Len(ret.value) = call.points
        /\ \A i \in 1..Len(ret.value) : ret.value[i] \in Nat
        /\ NonDecreasing(ret.value)
        /\ ret.value[Len(ret.value)] = call.total_rooms
        /\ call.total_rooms = 0 => \A i \in 1..Len(ret.value) : ret.value[i] = 0

\* a target below the ramp's length: the ramp was rescaled and rounded
C1_Witness ==
    /\ Returned
    /\ call.f = "synthesize_trend"
    /\ call.total_rooms = 3
    /\ call.points = 12
    /\ ret.value = <<0, 0, 1, 1, 1, 1, 2, 2, 2, 2, 3, 3>>

\* this invocation's fetch failed
FetchFailed == \E i \in 1..Len(log) : log[i] = "Warning: failed to fetch profile page"

LastLog == IF log = <<>> THEN "" ELSE log[Len(log)]

\* C2: when the template does not exist, the invocation reports an error and
\* ends with a non-zero exit code, and the output file is never written: it
\* holds what it held when the invocation started.
C2_MissingTemplateFails ==
    ~tplExists =>
        /\ writes = 0
        /\ outFile = startFile
        /\ pc = "done" =>
              /\ exitCode \notin {0, Running}
              /\ LastLog \in {"Error: template not found", "usage"}

C2_Witness ==
    /\ ~tplExists
    /\ argv.ok
    /\ pc = "done"
    /\ exitCode = 1
    /\ LastLog = "Error: template not found"
    /\ outFile = Stale

\* the card of a profile of which nothing is known
DefaultCard ==
    render_svg(argv.template, BuildContext(DefaultStats(username), argv.points, argv.card, 0))

\* C3: with the template in place, a failed fetch is not fatal: the one GET is
\* not repeated, extraction runs on the empty document and yields the default
\* statistics, and if rendering does not fail the invocation writes the output
\* file with all-default statistics and exits 0.
C3_FetchFailureNonFatal ==
    FetchFailed =>
        /\ gets = 1
        /\ html = <<>>
        /\ pc \in {"extract", "context", "render", "done"}
        /\ pc \in {"context", "render", "done"} => stats = DefaultStats(username)
        /\ pc = "done" => LastLog \in {"Wrote", "Error: failed to render SVG"}
        /\ (pc = "done" /\ LastLog = "Wrote") =>
              /\ exitCode = 0
              /\ writes = 1
              /\ outFile.kind = "svg"
              /\ \A k \in argv.template \ {"generated_at"} : outFile.text[k] = DefaultCard.text[k]
              /\ "rank_display" \in argv.template => outFile.text["rank_display"] = <<Dash>>
              /\ "progress_pct" \in argv.template => outFile.text["progress_pct"] = 0

\* the site had a page with statistics, the fetch failed, the card was written
C3_Witness ==
    /\ FetchFailed
    /\ remote = PageStats
    /\ pc = "done"
    /\ exitCode = 0
    /\ outFile.kind = "svg"
    /\ outFile.text["rooms_display"] = <<"0">>

\* two successful invocations that fetched the same document
SameRunTwice ==
    /\ run > 1
    /\ pc = "done"
    /\ exitCode = 0
    /\ prev.exitCode = 0
    /\ prev.html = html

\* C4 as stated: two invocations with the same remote content and the same
\* inputs produce the same output file.
C4_Idempotent == SameRunTwice => outFile = prev.outFile

\* C4 as amended: each leaves a rendering of the template, with the same
\* values for every placeholder but generated_at, and the same file when they
\* read the same minute from the clock or the template does not use
\* generated_at.
C4_IdempotentUpToTimestamp ==
    SameRunTwice =>
        /\ outFile.kind = "svg" /\ prev.outFile.kind = "svg"
        /\ \A k \in ContextKeys \ {"generated_at"} : context[k] = prev.context[k]
        /\ \A k \in argv.template \ {"generated_at"} : outFile.text[k] = prev.outFile.text[k]
        /\ (context.generated_at = prev.context.generated_at \/ "generated_at" \notin argv.template)
              => outFile = prev.outFile

C4_Witness ==
    /\ SameRunTwice
    /\ html = PageStats
    /\ "generated_at" \in argv.template
    /\ context.generated_at = prev.context.generated_at
    /\ outFile = prev.outFile

Markers == {"Rank", "Badges", "badge", "Completed", "Streak", "/p/"}

NoMarkers(doc) == \A i \in 1..Len(doc) : doc[i] \notin Markers

\* C5: for a document, the empty one included, with none of the markers,
\* extract_stats returns rank = badges = rooms = streak = 0 and the input
\* username.
C5_NoMarkersDefaults ==
    (Returned /\ call.f = "extract_stats" /\ NoMarkers(call.html)) =>
        ret.value = [username |-> call.username, rank |-> 0, badges |-> 0, rooms |-> 0,
                     streak |-> 0]

\* a document with numbers and words, none of them a marker
C5_Witness ==
    /\ Returned
    /\ call.f = "extract_stats"
    /\ call.html = <<"rooms", ":", "4">>
    /\ call.username = <<"a">>
    /\ ret.value.rooms = 0

\* C6: progress_pct is an integer of 0..100, 0 for rooms = 0, and for
\* rooms >= 100 it reaches 100 and does not exceed it.
C6_ProgressRange ==
    (Returned /\ call.f = "progress_pct") =>
        /\ ret.value \in 0..100
        /\ call.rooms = 0 => ret.value = 0
        /\ call.rooms >= 100 => ret.value = 100
        /\ call.rooms < 100 => ret.value \in {call.rooms - 1, call.rooms}

C6_Witness ==
    /\ Returned
    /\ call.f = "progress_pct"
    /\ call.rooms = 101
    /\ ret.value = 100

\* C7: build_sparkline_points gives one point per value, in order, every x in
\* 0..W and every y in 0..H, and a point of the largest value has the least y.
C7_SparklineBounds ==
    (Returned /\ call.f = "build_sparkline_points") =>
        LET pts == ret.value
            n   == Len(call.values)
        IN  /\ Len(pts) = n
            /\ \A i \in 1..n : pts[i][1] \in 0..call.canvas[1] /\ pts[i][2] \in 0..call.canvas[2]
            /\ \A i \in 1..(n - 1) : pts[i][1] <= pts[i + 1][1]
            /\ \A i, j \in 1..n : call.values[i] >= call.values[j] => pts[i][2] <= pts[j][2]
            /\ \A i \in 1..n : call.values[i] = SeqMax(call.values) =>
                                  \A j \in 1..n : pts[i][2] <= pts[j][2]

C7_Witness ==
    /\ Returned
    /\ call.f = "build_sparkline_points"
    /\ call.values = <<1, 5, 2>>
    /\ call.canvas = <<360, 44>>
    /\ ret.value = <<<<0, 35>>, <<180, 0>>, <<360, 26>>>>

\* the first /p/<identifier> of a document
HasUrlId(doc) == \E p \in 1..(Len(doc) - 1) : doc[p] = "/p/" /\ IsIdent(doc[p + 1])

IsUrlId(doc, id) ==
    \E p \in 1..(Len(doc) - 1) :
        /\ doc[p] = "/p/" /\ IsIdent(doc[p + 1])
        /\ \A q \in 1..(p - 1) : ~(doc[q] = "/p/" /\ IsIdent(doc[q + 1]))
        /\ id # <<>>
        /\ id = SubSeq(doc, p + 1, p + Len(id))
        /\ p + Len(id) <= Len(doc)
        /\ \A i \in 1..Len(id) : IsIdent(id[i])
        /\ p + Len(id) < Len(doc) => ~IsIdent(doc[p + Len(id) + 1])

\* C8 as stated: a profile-header marker first (the patterns know none), else
\* the /p/<identifier> of the document, and the input username only when the
\* document has neither.
C8_UrlBeforeInput ==
    (Returned /\ call.f = "extract_stats") =>
        IF HasUrlId(call.html) THEN IsUrlId(call.html, ret.value.username)
        ELSE ret.value.username = call.username

\* C8 as amended: the input username whenever it is not empty; the
\* /p/<identifier> of the document only when the input username is empty; and
\* the empty input username when the document has no /p/<identifier> either.
C8_InputBeforeUrl ==
    (Returned /\ call.f = "extract_stats") =>
        IF call.username # <<>> THEN ret.value.username = call.username
        ELSE IF HasUrlId(call.html) THEN IsUrlId(call.html, ret.value.username)
        ELSE ret.value.username = <<>>

C8_Witness ==
    /\ Returned
    /\ call.f = "extract_stats"
    /\ call.username = <<>>
    /\ call.html = <<"/p/", "a", "4">>
    /\ ret.value.username = <<"a", "4">>

\* p / q rounded to the nearest integer, ties to even (round)
RoundNearest(p, q) ==
    LET f == p \div q
        r == p % q
    IN  IF 2 * r < q THEN f ELSE IF 2 * r > q THEN f + 1 ELSE IF f % 2 = 0 THEN f ELSE f + 1

\* the real value of the x and of the y of point i, as a fraction
XNum(i) == (i - 1) * call.canvas[1]

XDen == IF Len(call.values) > 1 THEN Len(call.values) - 1 ELSE 1

MaxV == IF SeqMax(call.values) # 0 THEN SeqMax(call.values) ELSE 1

YNum(i) == (MaxV - call.values[i]) * call.canvas[2]

\* C9 as stated: x = round(i / (N - 1) * W) and y = round((1 - v) * H).
C9_RoundedCoordinates ==
    (Returned /\ call.f = "build_sparkline_points") =>
        \A i \in 1..Len(call.values) :
            /\ ret.value[i][1] = RoundNearest(XNum(i), XDen)
            /\ ret.value[i][2] = RoundNearest(YNum(i), MaxV)

\* r is the real value p / q cut to an integer in floating point: its floor,
\* or one less when p / q is a whole number
Truncated53(p, q, r) == r = p \div q \/ (p % q = 0 /\ r = (p \div q) - 1)

\* C9 as amended: the coordinates are cut, not rounded: x = int(i / (N - 1) * W)
\* and y = int((1 - v) * H) in floating point.
C9_TruncatedCoordinates ==
    (Returned /\ call.f = "build_sparkline_points") =>
        \A i \in 1..Len(call.values) :
            /\ Truncated53(XNum(i), XDen, ret.value[i][1])
            /\ Truncated53(YNum(i), MaxV, ret.value[i][2])

\* on 10 x 10, the value 1 of a largest 3 is at y = 6.67: it is cut to 6, where
\* round() gives 7
C9_Witness ==
    /\ Returned
    /\ call.f = "build_sparkline_points"
    /\ call.canvas = <<10, 10>>
    /\ call.values = <<1, 3, 0>>
    /\ ret.value = <<<<0, 6>>, <<5, 0>>, <<10, 10>>>>

\* C10: the template is checked before the fetch, so an invocation without a
\* template issues no GET; an invocation issues at most one GET and writes the
\* output file at most once, and only after the fetch step.
C10_Ordering ==
    /\ ~tplExists => gets = 0
    /\ gets \in {0, 1}
    /\ writes \in {0, 1}
    /\ gets = 1 <=> pc \in {"extract", "context", "render", "done"} /\ tplExists /\ argv.ok
    /\ writes = 1 => gets = 1 /\ pc = "done"
    /\ outFile # startFile => writes = 1

C10_Witness ==
    /\ pc = "done"
    /\ gets = 1
    /\ writes = 1
    /\ exitCode = 0
    /\ startFile = Absent
    /\ outFile.kind = "svg"

====
